---- MODULE Spec2Model ----
(***************************************************************************)
(* Todo List API (training-services): users, categories and todos kept by  *)
(* the persistence client, the JWT auth middleware and the route handlers  *)
(* of the user, todo and category routers.  One action is one HTTP request *)
(* handled from the first middleware to the response.                      *)
(***************************************************************************)
EXTENDS Integers, Sequences, FiniteSets, TLC

VARIABLES users, todos, categories, nextTodo, now, req, resp, ctx, hits, tx, calls

vars == <<users, todos, categories, nextTodo, now, req, resp, ctx, hits, tx, calls>>

(***************************************************************************)
(* Bounds of the model.                                                    *)
(***************************************************************************)
MaxUsers == 2
MaxTodos == 2
MaxCategories == 2
MaxTime == 2

(***************************************************************************)
(* Values.  An email is the sequence of its parts, so that includes('@')   *)
(* and the schema's format check are computed on it.                       *)
(***************************************************************************)
EmailA == <<"a", "@", "x.com">>
EmailB == <<"b", "@", "x.com">>
EmailC == <<"c", "@", "x.com">>
EmailNoAt == <<"a", "x.com">>
EmailEmpty == <<>>
Emails == {EmailA, EmailB, EmailC, EmailNoAt, EmailEmpty}

Passwords == {"password1", "password2", "short", ""}

NoUser == "<none>"

UserIdOf(n) == "u" \o ToString(n)
TodoIdOf(n) == "t" \o ToString(n)

\* An optional value (T | undefined) is the sequence of zero or one value.
None == <<>>
Some(v) == <<v>>

(***************************************************************************)
(* Password and token primitives.                                          *)
(***************************************************************************)
\* Bun.password.hash(password, bcrypt): the stored value is not the password
PasswordHash(password) == <<"$2b$10$", password>>

\* Bun.password.verify(password, hash)
PasswordVerify(password, hash) == hash = PasswordHash(password)

JWT_SECRET == "servicesecret"
OtherSecret == "attacker"

\* JSON values of a token payload, with their typeof
JStr(s) == [type |-> "string", value |-> s]
JNum(s) == [type |-> "number", value |-> s]

\* hono/jwt sign(payload, secret): a token is the sequence of its three parts,
\* header, payload and the signature of the key
JwtSign(payload, secret) == <<"HS256", payload, secret>>

\* a token that carries the user id as `sub`
signTokenWithSub(userId) == JwtSign([sub |-> JStr(userId)], JWT_SECRET)

\* signToken(userId) = sign({ id: userId }, JWT_SECRET)
signToken(userId) == JwtSign([id |-> JStr(userId)], JWT_SECRET)

\* Tokens the program never issues and a request may still carry: the empty
\* string, a string that is no JWT, a wrong signature, an expired token, a
\* payload whose id is a number, a payload without id.
EmptyString == <<>>
Malformed == <<"not-a-jwt">>
BadTokens(uid) ==
  { Malformed,
    JwtSign([id |-> JStr(uid)], OtherSecret),
    JwtSign([id |-> JStr(uid), exp |-> JNum("past")], JWT_SECRET),
    JwtSign([id |-> JNum("42")], JWT_SECRET),
    JwtSign([sub |-> JStr(uid)], JWT_SECRET) }

\* a decoding that does not look at `exp`
JwtDecodeIgnoringExpiry(token, secret) ==
  IF Len(token) # 3 THEN None
  ELSE IF token[3] # secret THEN None
  ELSE Some(token[2])

\* the decoding shared by both verify functions: the payload of a token that
\* parses, carries the secret's signature and is not expired
JwtDecode(token, secret) ==
  IF Len(token) # 3 THEN None
  ELSE IF token[3] # secret THEN None
  ELSE IF "exp" \in DOMAIN token[2] THEN None
  ELSE Some(token[2])

\* hono/jwt verify(token, secret): throws where the decoding fails
JwtVerify(token, secret) ==
  LET d == JwtDecode(token, secret) IN
  IF d = None THEN [threw |-> TRUE, payload |-> None]
  ELSE [threw |-> FALSE, payload |-> d]

\* @elysiajs/jwt jwt.verify(token): false where the decoding fails
jwtVerify(token) == JwtDecode(token, JWT_SECRET)

\* typeof payload.id === 'string'
HasStringId(payload) == "id" \in DOMAIN payload /\ payload.id.type = "string"

(***************************************************************************)
(* Credentials of a request.  The Authorization header is absent or the    *)
(* pair of its first seven characters and the rest; the cookie jar is a    *)
(* record of the cookies sent.                                             *)
(***************************************************************************)
NoHeader == None
Bearer(token) == Some(<<"Bearer ", token>>)
Basic(token) == Some(<<"Basic x", token>>)

NoCookies == [n \in {} |-> EmptyString]
TokenCookie(token) == [token |-> token]

\* authHeader?.startsWith('Bearer ')
StartsWithBearer(authHeader) == authHeader # None /\ authHeader[1][1] = "Bearer "

\* authHeader.substring(7)
Substring7(authHeader) == authHeader[1][2]

\* getCookie(c, 'token') / cookie.token?.value
getCookie(cookies, name) ==
  IF name \in DOMAIN cookies THEN Some(cookies[name]) ELSE None

\* the lookup with the cookie in front of the header
ExtractTokenCookieFirst(authHeader, cookies) ==
  IF "token" \in DOMAIN cookies THEN Some(cookies["token"])
  ELSE IF StartsWithBearer(authHeader) THEN Some(Substring7(authHeader))
  ELSE None

\* the lookup that turns to the cookie when the bearer token is empty
ExtractTokenFallingBack(authHeader, cookies) ==
  IF StartsWithBearer(authHeader) /\ Substring7(authHeader) # EmptyString
  THEN Some(Substring7(authHeader))
  ELSE getCookie(cookies, "token")

\* the token the middleware looks at (logger.ts 225-233, todo.ts 10-17)
ExtractToken(authHeader, cookies) ==
  IF StartsWithBearer(authHeader) THEN Some(Substring7(authHeader))
  ELSE getCookie(cookies, "token")

\* !token: undefined or the empty string
Falsy(token) == token = None \/ token[1] = EmptyString

Passed(userId) == [pass |-> TRUE, userId |-> userId, status |-> 0, message |-> ""]
Rejected(status, message) ==
  [pass |-> FALSE, userId |-> NoUser, status |-> status, message |-> message]

\* authMiddleware (Hono, required): 401 or the verified id set as userId
authMiddleware(authHeader, cookies) ==
  LET token == ExtractToken(authHeader, cookies) IN
  IF Falsy(token) THEN Rejected(401, "Authentication required")
  ELSE LET v == JwtVerify(token[1], JWT_SECRET) IN
       IF v.threw THEN Rejected(401, "Invalid or expired token")
       ELSE IF ~HasStringId(v.payload[1]) THEN Rejected(401, "Invalid or expired token")
       ELSE Passed(v.payload[1].id.value)

\* todoRouter.resolve (Elysia): the same, with a verify that returns false
resolveAuth(authHeader, cookies) ==
  LET token == ExtractToken(authHeader, cookies) IN
  IF Falsy(token) THEN Rejected(401, "Authentication required")
  ELSE LET payload == jwtVerify(token[1]) IN
       IF payload = None \/ ~HasStringId(payload[1])
       THEN Rejected(401, "Invalid or expired token")
       ELSE Passed(payload[1].id.value)

\* an optional middleware that answers 401 to a token that does not verify
optionalAuthRejecting(authHeader, cookies) ==
  LET token == ExtractToken(authHeader, cookies) IN
  IF Falsy(token) THEN Passed(NoUser)
  ELSE LET v == JwtVerify(token[1], JWT_SECRET) IN
       IF v.threw \/ ~HasStringId(v.payload[1])
       THEN Rejected(401, "Invalid or expired token")
       ELSE Passed(v.payload[1].id.value)

\* optionalAuth (Hono): next() is always awaited; userId is set where the
\* token verifies and its payload has a string id, a verify that throws is
\* caught and ignored
optionalAuth(authHeader, cookies) ==
  LET token == ExtractToken(authHeader, cookies) IN
  IF Falsy(token) THEN Passed(NoUser)
  ELSE LET v == JwtVerify(token[1], JWT_SECRET) IN
       IF v.threw THEN Passed(NoUser)
       ELSE IF ~HasStringId(v.payload[1]) THEN Passed(NoUser)
       ELSE Passed(v.payload[1].id.value)

\* optionalAuth (Elysia): derive returns { userId }, undefined where the token
\* is missing or jwt.verify returns false
elysiaOptionalAuth(authHeader, cookies) ==
  LET token == ExtractToken(authHeader, cookies) IN
  IF Falsy(token) THEN Passed(NoUser)
  ELSE LET payload == jwtVerify(token[1]) IN
       IF payload = None \/ ~HasStringId(payload[1])
       THEN Passed(NoUser)
       ELSE Passed(payload[1].id.value)

(***************************************************************************)
(* The persistence layer (prisma/schema.prisma).                           *)
(*   users      : rows [id, email, password], email unique                 *)
(*   categories : rows [id, name], id autoincrement                        *)
(*   todos      : rows [id, title, completed, categoryId, userId,          *)
(*                createdAt, updatedAt]; userId is NoUser for NULL         *)
(***************************************************************************)
\* names of the seeded categories, in the order the seed creates them
CategoryNames == <<"Default", "Study", "Work", "Personal", "Other">>

\* prisma.user.findUnique({ where: { email } })
UserByEmail(email) == {u \in users : u.email = email}

\* prisma.user.findUnique({ where: { id } })
UserById(id) == {u \in users : u.id = id}

\* prisma.todo.findUnique({ where: { id } })
TodoById(id) == {t \in todos : t.id = id}

\* prisma.category.findFirst(): some row, in whatever order the storage gives
CategoryFindFirst == categories

\* findMany without the userId condition
TodoFindManyAnyOwner(userId, categoryId) ==
  {t \in todos : categoryId = None \/ t.categoryId = categoryId[1]}

\* prisma.todo.findMany({ where: { userId, categoryId } }); an undefined
\* categoryId is no condition
TodoFindMany(userId, categoryId) ==
  {t \in todos : t.userId = userId /\ (categoryId = None \/ t.categoryId = categoryId[1])}

\* user.create on a table without the unique index on email
UserCreateNoUniqueIndex(email, password) ==
  [error |-> "none",
   users |-> users \cup {[id |-> UserIdOf(Cardinality(users) + 1),
                          email |-> email, password |-> password]}]

\* prisma.user.create: the unique index on email raises P2002
UserCreate(email, password) ==
  IF UserByEmail(email) # {} THEN [error |-> "P2002", users |-> users]
  ELSE [error |-> "none",
        users |-> users \cup {[id |-> UserIdOf(Cardinality(users) + 1),
                               email |-> email, password |-> password]}]

\* prisma.todo.create: id and timestamps are assigned by the database
TodoCreate(title, completed, categoryId, userId) ==
  [id |-> TodoIdOf(nextTodo), title |-> title, completed |-> completed,
   categoryId |-> categoryId, userId |-> userId, createdAt |-> now, updatedAt |-> now]

\* prisma.todo.update({ where: { id }, data }): the fields data holds, and
\* updatedAt refreshed
TodoUpdate(todo, data) ==
  [f \in DOMAIN todo |->
     IF f \in DOMAIN data THEN data[f]
     ELSE IF f = "updatedAt" THEN now
     ELSE todo[f]]

(***************************************************************************)
(* Error taxonomy (lib/errors).                                            *)
(***************************************************************************)
AppError(name, message, code, status, details) ==
  [name |-> name, message |-> message, code |-> code, status |-> status, details |-> details]

UserError(name, message, code, details) == AppError(name, message, code, 400, details)

UserAlreadyExistsError(email) ==
  UserError("UserAlreadyExistsError", "User with this email already exists",
            "USER_ALREADY_EXISTS", [email |-> email])

InvalidUserDataError(details) ==
  UserError("InvalidUserDataError", "Invalid user data provided", "INVALID_USER_DATA", details)

\* email.includes('@')
IncludesAt(email) == \E i \in DOMAIN email : email[i] = "@"

Threw(error) == [threw |-> TRUE, error |-> error, users |-> users]
Returned(newUsers) == [threw |-> FALSE, error |-> AppError("", "", "", 0, ""), users |-> newUsers]

\* a signUp that takes the unique conflict for a success
signUpIgnoringConflict(email, password, fault) ==
  IF email = EmailEmpty \/ password = "" \/ ~IncludesAt(email)
  THEN Threw(InvalidUserDataError([email |-> "Invalid email"]))
  ELSE Returned(UserCreate(email, PasswordHash(password)).users)

\* the faults that are instances of Prisma.PrismaClientKnownRequestError, by
\* their code; P2002 is raised by UserCreate
KnownRequestErrors == {"P2024"}

\* a signUp that lets an error it cannot classify through as it is
signUpRethrowing(email, password, fault) ==
  IF email = EmailEmpty \/ password = ""
  THEN Threw(InvalidUserDataError(
               [email |-> IF email = EmailEmpty THEN "Email is required" ELSE "",
                password |-> IF password = "" THEN "Password is required" ELSE ""]))
  ELSE IF ~IncludesAt(email)
  THEN Threw(InvalidUserDataError([email |-> "Invalid email"]))
  ELSE IF fault # "none" /\ fault \notin KnownRequestErrors
  THEN Threw([name |-> fault, message |-> "internal detail", code |-> "", status |-> 0,
              details |-> ""])
  ELSE IF fault # "none"
  THEN Threw(AppError("AppError", "Database operation failed", "DATABASE_ERROR", 500,
                      [originalError |-> "internal detail"]))
  ELSE LET c == UserCreate(email, PasswordHash(password)) IN
       IF c.error = "P2002"
       THEN Threw(UserAlreadyExistsError(email))
       ELSE Returned(c.users)

\* prisma.user.signUp(email, password).  fault is what the persistence call
\* or the hashing raises besides the unique conflict: "none", the code of a
\* Prisma known request error ("P2024"), the class of another error of the
\* Prisma client ("PrismaClientInitializationError"), or "throw" for any
\* other exception.
signUp(email, password, fault) ==
  IF email = EmailEmpty \/ password = ""
  THEN Threw(InvalidUserDataError(
               [email |-> IF email = EmailEmpty THEN "Email is required" ELSE "",
                password |-> IF password = "" THEN "Password is required" ELSE ""]))
  ELSE IF ~IncludesAt(email)
  THEN Threw(InvalidUserDataError([email |-> "Invalid email"]))
  ELSE IF fault # "none" /\ fault \notin KnownRequestErrors
  THEN Threw(AppError("AppError", "An unexpected error occurred", "UNKNOWN_ERROR", 500,
                      [originalError |-> "internal detail"]))
  ELSE IF fault # "none"
  THEN Threw(AppError("AppError", "Database operation failed", "DATABASE_ERROR", 500,
                      [originalError |-> "internal detail"]))
  ELSE LET c == UserCreate(email, PasswordHash(password)) IN
       IF c.error = "P2002"
       THEN Threw(UserAlreadyExistsError(email))
       ELSE Returned(c.users)

(***************************************************************************)
(* Requests and responses.                                                 *)
(***************************************************************************)
\* A response: the status, the message of the body, and the data the body
\* carries, each empty where the body has none.
Response(status, message) ==
  [status |-> status, message |-> message, todos |-> {}, users |-> {}, categories |-> {},
   token |-> None, setCookie |-> None, data |-> None, id |-> None]

Request(route, authHeader, cookies, id, body) ==
  [route |-> route, authHeader |-> authHeader, cookies |-> cookies, id |-> id, body |-> body]

NoBody == [n \in {} |-> ""]
NoParam == ""

NoContext == [userId |-> NoUser, handlerRan |-> FALSE]
HandlerContext(userId) == [userId |-> userId, handlerRan |-> TRUE]

\* formatDate(date): 'MM/DD/YYYY HH:mm:ss' keeps whole seconds; a date of the
\* model counts half seconds
TicksPerSecond == 2
formatDate(date) == [format |-> "MM/DD/YYYY HH:mm:ss", seconds |-> date \div TicksPerSecond]

\* { ...todo, userId: todo.userId ?? '', createdAt: formatDate(..), updatedAt: formatDate(..) }
TodoView(todo) ==
  [id |-> todo.id, title |-> todo.title, completed |-> todo.completed,
   categoryId |-> todo.categoryId,
   userId |-> IF todo.userId = NoUser THEN "" ELSE todo.userId,
   createdAt |-> formatDate(todo.createdAt), updatedAt |-> formatDate(todo.updatedAt)]

(***************************************************************************)
(* Todo router (Elysia): the handlers behind todoRouter.resolve.  Each     *)
(* gives the response and the todos table after it.                        *)
(***************************************************************************)
Outcome(response, newTodos) == [resp |-> response, todos |-> newTodos]

\* set.status = ...; throw new Error(message)
ErrorOutcome(status, message) == Outcome(Response(status, message), todos)

\* GET /api/todos
listTodosHandler(userId, query) ==
  LET categoryId == IF "categoryId" \in DOMAIN query /\ query.categoryId # 0
                    THEN Some(query.categoryId) ELSE None
      found == TodoFindMany(userId, categoryId)
  IN Outcome([Response(200, "") EXCEPT !.todos = {TodoView(t) : t \in found}], todos)

\* GET /api/todos/:id without the ownership test
getTodoHandlerNoOwnerCheck(userId, id) ==
  LET found == TodoById(id) IN
  IF found = {} THEN ErrorOutcome(404, "Todo not found")
  ELSE Outcome([Response(200, "") EXCEPT !.todos = {TodoView(t) : t \in found}], todos)

\* GET /api/todos/:id with the ownership test in front of the existence test
getTodoHandlerOwnerFirst(userId, id) ==
  LET found == {t \in TodoById(id) : t.userId = userId} IN
  IF found = {} THEN ErrorOutcome(403, "Access denied")
  ELSE Outcome([Response(200, "") EXCEPT !.todos = {TodoView(t) : t \in found}], todos)

\* GET /api/todos/:id
getTodoHandler(userId, id) ==
  LET found == TodoById(id) IN
  IF found = {} THEN ErrorOutcome(404, "Todo not found")
  ELSE LET todo == CHOOSE t \in found : TRUE IN
       IF todo.userId # userId THEN ErrorOutcome(403, "Access denied")
       ELSE Outcome([Response(200, "") EXCEPT !.todos = {TodoView(todo)}], todos)

\* the fields of the create and update body schemas
TodoBodyKeys == {"title", "completed", "categoryId"}

\* a validator that hands the body over as it came
NormalizeKeepAll(body, keys) == body

\* the body the handler receives: the validator keeps the fields of the schema
Normalize(body, keys) == [k \in (DOMAIN body) \cap keys |-> body[k]]

\* POST /api/todos that stores no owner
createTodoHandlerNoOwner(userId, body, first) ==
  LET given == "categoryId" \in DOMAIN body /\ body.categoryId # 0 IN
  IF ~given /\ first = None
  THEN ErrorOutcome(400, "No categories available. Please create a category first.")
  ELSE LET categoryId == IF given THEN body.categoryId ELSE first[1].id
           completed == IF "completed" \in DOMAIN body THEN body.completed ELSE FALSE
           todo == TodoCreate(body.title, completed, categoryId, NoUser)
       IN IF \A c \in categories : c.id # categoryId
          THEN ErrorOutcome(500, "Foreign key constraint failed")
          ELSE Outcome([Response(200, "") EXCEPT !.todos = {TodoView(todo)}],
                       todos \cup {todo})

\* POST /api/todos with category 1 as the default, never looked up
createTodoHandlerDefaultOne(userId, body, first) ==
  LET given == "categoryId" \in DOMAIN body /\ body.categoryId # 0
      categoryId == IF given THEN body.categoryId ELSE 1
      completed == IF "completed" \in DOMAIN body THEN body.completed ELSE FALSE
      todo == TodoCreate(body.title, completed, categoryId, userId)
  IN IF \A c \in categories : c.id # categoryId
     THEN ErrorOutcome(500, "Foreign key constraint failed")
     ELSE Outcome([Response(200, "") EXCEPT !.todos = {TodoView(todo)}],
                  todos \cup {todo})

\* POST /api/todos that answers with the categoryId of the body when it has one
createTodoHandlerEchoingBody(userId, body, first) ==
  LET given == "categoryId" \in DOMAIN body /\ body.categoryId # 0 IN
  IF ~given /\ first = None
  THEN ErrorOutcome(400, "No categories available. Please create a category first.")
  ELSE LET categoryId == IF given THEN body.categoryId ELSE first[1].id
           completed == IF "completed" \in DOMAIN body THEN body.completed ELSE FALSE
           todo == TodoCreate(body.title, completed, categoryId, userId)
           echo == IF "categoryId" \in DOMAIN body THEN body.categoryId ELSE categoryId
       IN IF \A c \in categories : c.id # categoryId
          THEN ErrorOutcome(500, "Foreign key constraint failed")
          ELSE Outcome([Response(200, "") EXCEPT
                          !.todos = {[TodoView(todo) EXCEPT !.categoryId = echo]}],
                       todos \cup {todo})

\* POST /api/todos, with the category findFirst() returned where it was asked
createTodoHandler(userId, body, first) ==
  LET given == "categoryId" \in DOMAIN body /\ body.categoryId # 0 IN
  IF ~given /\ first = None
  THEN ErrorOutcome(400, "No categories available. Please create a category first.")
  ELSE LET categoryId == IF given THEN body.categoryId ELSE first[1].id
           completed == IF "completed" \in DOMAIN body THEN body.completed ELSE FALSE
           todo == TodoCreate(body.title, completed, categoryId, userId)
       IN IF \A c \in categories : c.id # categoryId
          THEN ErrorOutcome(500, "Foreign key constraint failed")
          ELSE Outcome([Response(200, "") EXCEPT !.todos = {TodoView(todo)}],
                       todos \cup {todo})

\* PUT /api/todos/:id that lets any caller take a todo without owner
updateTodoHandlerAdopting(userId, id, body) ==
  LET found == TodoById(id) IN
  IF found = {} THEN ErrorOutcome(404, "Todo not found")
  ELSE LET existingTodo == CHOOSE t \in found : TRUE IN
       IF existingTodo.userId \notin {userId, NoUser} THEN ErrorOutcome(403, "Access denied")
       ELSE LET todo == [TodoUpdate(existingTodo, body) EXCEPT !.userId = userId] IN
            Outcome([Response(200, "") EXCEPT !.todos = {TodoView(todo)}],
                    (todos \ {existingTodo}) \cup {todo})

\* PUT /api/todos/:id
updateTodoHandler(userId, id, body) ==
  LET found == TodoById(id) IN
  IF found = {} THEN ErrorOutcome(404, "Todo not found")
  ELSE LET existingTodo == CHOOSE t \in found : TRUE IN
       IF existingTodo.userId # userId THEN ErrorOutcome(403, "Access denied")
       ELSE LET todo == TodoUpdate(existingTodo, body) IN
            IF \A c \in categories : c.id # todo.categoryId
            THEN ErrorOutcome(500, "Foreign key constraint failed")
            ELSE Outcome([Response(200, "") EXCEPT !.todos = {TodoView(todo)}],
                         (todos \ {existingTodo}) \cup {todo})

\* DELETE /api/todos/:id without the ownership test
deleteTodoHandlerNoOwnerCheck(userId, id) ==
  LET found == TodoById(id) IN
  IF found = {} THEN ErrorOutcome(404, "Todo not found")
  ELSE Outcome([Response(200, "Todo deleted successfully") EXCEPT !.id = Some(id)],
               todos \ found)

\* DELETE /api/todos/:id that reports a missing todo as deleted
deleteTodoHandlerIdempotent(userId, id) ==
  LET found == TodoById(id) IN
  IF \E t \in found : t.userId # userId THEN ErrorOutcome(403, "Access denied")
  ELSE Outcome([Response(200, "Todo deleted successfully") EXCEPT !.id = Some(id)],
               todos \ found)

\* DELETE /api/todos/:id
deleteTodoHandler(userId, id) ==
  LET found == TodoById(id) IN
  IF found = {} THEN ErrorOutcome(404, "Todo not found")
  ELSE LET existingTodo == CHOOSE t \in found : TRUE IN
       IF existingTodo.userId # userId THEN ErrorOutcome(403, "Access denied")
       ELSE Outcome([Response(200, "Todo deleted successfully") EXCEPT !.id = Some(id)],
                    todos \ {existingTodo})

(***************************************************************************)
(* User router (Hono): signup, login and the profile routes.               *)
(***************************************************************************)
\* z.email(): one '@' between a local part and a domain
IsEmail(email) == Len(email) = 3 /\ email[2] = "@" /\ email[1] # "" /\ email[3] # ""

MinPasswordLength == 8
MaxPasswordLength == 16

\* LoginSchema / SignupSchema
SchemaAccepts(email, password) ==
  IsEmail(email) /\ Len(password) >= MinPasswordLength /\ Len(password) <= MaxPasswordLength

\* the validator's answer to a body the schema rejects
ValidationFailure ==
  [Response(400, "") EXCEPT !.data = Some([success |-> FALSE, error |-> "ZodError"])]

\* JSON.stringify of a caught error: its enumerable fields
SerializedError(e) == [name |-> e.name, code |-> e.code, status |-> e.status, details |-> e.details]

\* POST /api/auth/signup
signupHandler(email, password, fault) ==
  LET r == signUp(email, password, fault) IN
  IF ~r.threw
  THEN [resp |-> Response(200, "User created successfully"), users |-> r.users]
  ELSE IF r.error.name = "UserAlreadyExistsError"
  THEN [resp |-> [Response(400, r.error.message) EXCEPT !.data = Some(r.error.details)],
        users |-> r.users]
  ELSE [resp |-> [Response(400, "User creation failed") EXCEPT
                    !.data = Some(SerializedError(r.error))],
        users |-> r.users]

SevenDays == 7 * 24 * 60 * 60

\* setCookie(c, 'token', token, { httpOnly, maxAge, path, sameSite })
LoginCookie(token) ==
  [name |-> "token", value |-> token, httpOnly |-> TRUE, maxAge |-> SevenDays,
   path |-> "/", sameSite |-> "Lax"]

\* POST /api/auth/login
loginHandler(email, password) ==
  LET found == UserByEmail(email) IN
  IF found = {} THEN Response(400, "User not found")
  ELSE LET user == CHOOSE u \in found : TRUE IN
       IF ~PasswordVerify(password, user.password) THEN Response(400, "Invalid password")
       ELSE LET token == signToken(user.id) IN
            [Response(200, "Login successful") EXCEPT
               !.token = Some(token),
               !.setCookie = Some(LoginCookie(token)),
               !.data = Some([userId |-> user.id, email |-> user.email])]

\* select: { id, email, _count: { select: { todos, posts } } }
UserCountView(u) ==
  [id |-> u.id, email |-> u.email,
   count |-> [todos |-> Cardinality({t \in todos : t.userId = u.id}), posts |-> 0]]

\* select: { id, email, todos: { id, title, completed, categoryId }, posts: {...} }
UserProfileView(u) ==
  [id |-> u.id, email |-> u.email,
   todos |-> {[id |-> t.id, title |-> t.title, completed |-> t.completed,
               categoryId |-> t.categoryId] : t \in {x \in todos : x.userId = u.id}},
   posts |-> {}]

\* GET /api/users
listUsersHandler == [Response(200, "") EXCEPT !.users = {UserCountView(u) : u \in users}]

\* GET /api/users/me
getMeHandler(userId) ==
  [Response(200, "") EXCEPT !.users = {UserProfileView(u) : u \in UserById(userId)}]

\* GET /api/users/{id} that looks the user up before the ownership test
getUserHandlerLookupFirst(userId, id) ==
  IF UserById(id) = {} THEN Response(404, "User not found")
  ELSE IF id # userId THEN Response(403, "Access denied")
  ELSE [Response(200, "") EXCEPT !.users = {UserProfileView(u) : u \in UserById(id)}]

\* GET /api/users/{id}
getUserHandler(userId, id) ==
  IF id # userId THEN Response(403, "Access denied")
  ELSE [Response(200, "") EXCEPT !.users = {UserProfileView(u) : u \in UserById(id)}]

(***************************************************************************)
(* User router (Elysia, routers/user.ts): the profile routes before the    *)
(* auth middleware was added.                                              *)
(***************************************************************************)
\* select: { id, email, todos: true, posts: true }
UserWithRelations(u) ==
  [id |-> u.id, email |-> u.email, todos |-> {t \in todos : t.userId = u.id}, posts |-> {}]

\* include: { todos: true, posts: true }: every column of the row and the relations
UserRowWithRelations(u) ==
  [id |-> u.id, email |-> u.email, password |-> u.password,
   todos |-> {t \in todos : t.userId = u.id}, posts |-> {}]

\* GET /api/users (Elysia)
elysiaListUsersHandler ==
  [Response(200, "") EXCEPT !.users = {UserWithRelations(u) : u \in users}]

\* GET /api/users/:id (Elysia)
elysiaGetUserHandler(id) ==
  [Response(200, "") EXCEPT !.users = {UserRowWithRelations(u) : u \in UserById(id)}]

(***************************************************************************)
(* Category router (Hono): public.                                         *)
(***************************************************************************)
\* select: withTodos ? { id, name, todos: true } : { id, name }
CategoryView(c, withTodos) ==
  IF withTodos
  THEN [id |-> c.id, name |-> c.name, todos |-> {t \in todos : t.categoryId = c.id}]
  ELSE [id |-> c.id, name |-> c.name]

\* GET /api/categories
listCategoriesHandler(withTodos) ==
  [Response(200, "") EXCEPT !.categories = {CategoryView(c, withTodos) : c \in categories}]

\* GET /api/categories/{id}
getCategoryHandler(id, withTodos) ==
  [Response(200, "") EXCEPT
     !.categories = {CategoryView(c, withTodos) : c \in {x \in categories : x.id = id}}]

(***************************************************************************)
(* Inputs.                                                                 *)
(***************************************************************************)
SignupEmails == {EmailA, EmailB, EmailNoAt}
LoginEmails == {EmailA, EmailB}
SignupPasswords == {"password1", "short"}
LoginPasswords == {"password1", "password2"}
Faults == {"none", "P2024", "throw"}

\* tokens a client can hold: the ones login issues, and the ones nobody issued
IssuedTokens == {signToken(u.id) : u \in users}
Tokens == IssuedTokens \cup BadTokens(UserIdOf(1))

\* the credentials of the requests of Spec: none, an issued token in the header
\* or in the cookie, a malformed token in the header
Credentials ==
  {<<NoHeader, NoCookies>>, <<Bearer(Malformed), NoCookies>>}
    \cup {<<Bearer(t), NoCookies>> : t \in IssuedTokens}
    \cup {<<NoHeader, TokenCookie(t)>> : t \in IssuedTokens}

\* every header and every cookie jar
AllHeaders == {NoHeader} \cup {Bearer(t) : t \in Tokens \cup {EmptyString}}
                \cup {Basic(t) : t \in IssuedTokens}
AllCookies == {NoCookies} \cup {TokenCookie(t) : t \in Tokens \cup {EmptyString}}
AllCredentials == AllHeaders \X AllCookies

TodoIdParams == {TodoIdOf(n) : n \in 1..MaxTodos}
UserIdParams == {UserIdOf(n) : n \in 1..MaxUsers}
CategoryIdParams == 1..MaxCategories

\* bodies the create schema accepts: title, completed?, categoryId?
CreateBodies ==
  {[title |-> "Buy milk"], [title |-> "Buy milk", completed |-> TRUE],
   [title |-> "Buy milk", userId |-> UserIdOf(2)]}
    \cup {[title |-> "Buy milk", categoryId |-> k] : k \in 0..(MaxCategories + 1)}

\* bodies the update schema accepts: any of title, completed, categoryId
UpdateBodies ==
  {NoBody, [title |-> "Walk dog"], [completed |-> TRUE],
   [title |-> "Walk dog", completed |-> FALSE],
   [completed |-> TRUE, userId |-> UserIdOf(2)]}
    \cup {[categoryId |-> k] : k \in 1..(MaxCategories + 1)}

\* query strings the list schema accepts
ListQueries == {NoBody} \cup {[categoryId |-> k] : k \in 0..MaxCategories}

(***************************************************************************)
(* State machine.                                                          *)
(***************************************************************************)
\* no request is being answered
NoRequest == Request("", NoHeader, NoCookies, NoParam, NoBody)

\* the stores of the three rate limiters: hits of each key in its window
Limiters == {"auth", "api", "public"}
UserKey(userId) == "user:" \o userId
RateKeys == {"unknown", "10.0.0.1"} \cup {UserKey(UserIdOf(n)) : n \in 1..MaxUsers}
NoHits == [l \in Limiters |-> [k \in RateKeys |-> 0]]
NoResponse == Response(0, "")

\* the seed's interactive transaction: not open
NoTx == [pc |-> "closed", user |-> None, rows |-> <<>>, view |-> {}, before |-> {}]

\* requests whose handlers run concurrently: one slot per request, empty
MaxCalls == 2
Calls == 1..MaxCalls
NoCall == [pc |-> "free", route |-> "", userId |-> NoUser, id |-> NoParam,
           body |-> NoBody, resp |-> Response(0, "")]
NoCalls == [p \in Calls |-> NoCall]
Idle == req = NoRequest

Init ==
  /\ users = {}
  /\ todos = {}
  /\ categories = {}
  /\ nextTodo = 1
  /\ now = 0
  /\ hits = NoHits
  /\ req = NoRequest
  /\ resp = NoResponse
  /\ ctx = NoContext
  /\ tx = NoTx
  /\ calls = NoCalls

\* the response is sent and the context of the request is dropped
Complete ==
  /\ ~Idle
  /\ req' = NoRequest
  /\ resp' = NoResponse
  /\ ctx' = NoContext
  /\ UNCHANGED <<users, todos, categories, nextTodo, now, hits, tx, calls>>

\* the seed's createCategory: one more category, ids counting from 1
SeedCategory ==
  /\ Idle
  /\ Cardinality(categories) < MaxCategories
  /\ categories' = categories \cup
       {[id |-> Cardinality(categories) + 1, name |-> CategoryNames[Cardinality(categories) + 1]]}
  /\ UNCHANGED <<users, todos, nextTodo, now, req, resp, ctx, hits, tx, calls>>

\* POST /api/auth/signup
Signup(email, password, fault) ==
  /\ Idle
  /\ req' = Request("POST /api/auth/signup", NoHeader, NoCookies, NoParam,
                    [email |-> email, password |-> password, fault |-> fault])
  /\ IF ~SchemaAccepts(email, password)
     THEN /\ resp' = ValidationFailure
          /\ ctx' = NoContext
          /\ UNCHANGED users
     ELSE LET out == signupHandler(email, password, fault) IN
          /\ Cardinality(out.users) <= MaxUsers
          /\ resp' = out.resp
          /\ users' = out.users
          /\ ctx' = HandlerContext(NoUser)
  /\ UNCHANGED <<todos, categories, nextTodo, now, hits, tx, calls>>

\* POST /api/auth/login
Login(email, password) ==
  /\ Idle
  /\ req' = Request("POST /api/auth/login", NoHeader, NoCookies, NoParam,
                    [email |-> email, password |-> password])
  /\ IF ~SchemaAccepts(email, password)
     THEN resp' = ValidationFailure /\ ctx' = NoContext
     ELSE resp' = loginHandler(email, password) /\ ctx' = HandlerContext(NoUser)
  /\ UNCHANGED <<users, todos, categories, nextTodo, now, hits, tx, calls>>

\* a route of the Hono user router behind authMiddleware
UserRoute(route, authHeader, cookies, id) ==
  LET auth == authMiddleware(authHeader, cookies) IN
  /\ Idle
  /\ req' = Request(route, authHeader, cookies, id, NoBody)
  /\ IF ~auth.pass
     THEN resp' = Response(auth.status, auth.message) /\ ctx' = NoContext
     ELSE /\ ctx' = HandlerContext(auth.userId)
          /\ resp' = CASE route = "GET /api/users" -> listUsersHandler
                       [] route = "GET /api/users/me" -> getMeHandler(auth.userId)
                       [] route = "GET /api/users/{id}" -> getUserHandler(auth.userId, id)
  /\ UNCHANGED <<users, todos, categories, nextTodo, now, hits, tx, calls>>

ListUsers(authHeader, cookies) == UserRoute("GET /api/users", authHeader, cookies, NoParam)
GetMe(authHeader, cookies) == UserRoute("GET /api/users/me", authHeader, cookies, NoParam)
GetUser(authHeader, cookies, id) == UserRoute("GET /api/users/{id}", authHeader, cookies, id)

\* GET /api/users and GET /api/users/:id of the Elysia user router: no middleware
ElysiaListUsers(authHeader, cookies) ==
  /\ Idle
  /\ req' = Request("GET /api/users (Elysia)", authHeader, cookies, NoParam, NoBody)
  /\ resp' = elysiaListUsersHandler
  /\ ctx' = HandlerContext(NoUser)
  /\ UNCHANGED <<users, todos, categories, nextTodo, now, hits, tx, calls>>

ElysiaGetUser(authHeader, cookies, id) ==
  /\ Idle
  /\ req' = Request("GET /api/users/:id (Elysia)", authHeader, cookies, id, NoBody)
  /\ resp' = elysiaGetUserHandler(id)
  /\ ctx' = HandlerContext(NoUser)
  /\ UNCHANGED <<users, todos, categories, nextTodo, now, hits, tx, calls>>

\* GET /api/categories and GET /api/categories/{id}: no middleware
ListCategories(authHeader, cookies, withTodos) ==
  /\ Idle
  /\ req' = Request("GET /api/categories", authHeader, cookies, NoParam,
                    [includeTodos |-> withTodos])
  /\ resp' = listCategoriesHandler(withTodos)
  /\ ctx' = HandlerContext(NoUser)
  /\ UNCHANGED <<users, todos, categories, nextTodo, now, hits, tx, calls>>

GetCategory(authHeader, cookies, id, withTodos) ==
  /\ Idle
  /\ req' = Request("GET /api/categories/{id}", authHeader, cookies, ToString(id),
                    [includeTodos |-> withTodos])
  /\ resp' = getCategoryHandler(id, withTodos)
  /\ ctx' = HandlerContext(NoUser)
  /\ UNCHANGED <<users, todos, categories, nextTodo, now, hits, tx, calls>>

\* a route of the todo router: resolve, then the handler
TodoRoute(route, authHeader, cookies, id, body) ==
  LET auth == resolveAuth(authHeader, cookies) IN
  /\ Idle
  /\ req' = Request(route, authHeader, cookies, id, body)
  /\ IF ~auth.pass
     THEN /\ resp' = Response(auth.status, auth.message)
          /\ ctx' = NoContext
          /\ UNCHANGED <<todos, nextTodo>>
     ELSE LET out == CASE route = "GET /api/todos" -> listTodosHandler(auth.userId, body)
                       [] route = "GET /api/todos/:id" -> getTodoHandler(auth.userId, id)
                       [] route = "PUT /api/todos/:id" -> updateTodoHandler(auth.userId, id, Normalize(body, TodoBodyKeys))
                       [] route = "DELETE /api/todos/:id" -> deleteTodoHandler(auth.userId, id)
          IN /\ resp' = out.resp
             /\ todos' = out.todos
             /\ ctx' = HandlerContext(auth.userId)
             /\ UNCHANGED nextTodo
  /\ UNCHANGED <<users, categories, now, hits, tx, calls>>

ListTodos(authHeader, cookies, query) ==
  TodoRoute("GET /api/todos", authHeader, cookies, NoParam, query)
GetTodo(authHeader, cookies, id) ==
  TodoRoute("GET /api/todos/:id", authHeader, cookies, id, NoBody)
UpdateTodo(authHeader, cookies, id, body) ==
  TodoRoute("PUT /api/todos/:id", authHeader, cookies, id, body)
DeleteTodo(authHeader, cookies, id) ==
  TodoRoute("DELETE /api/todos/:id", authHeader, cookies, id, NoBody)

\* POST /api/todos: resolve, then the handler; findFirst() gives any category
CreateTodo(authHeader, cookies, body) ==
  LET auth == resolveAuth(authHeader, cookies) IN
  /\ Idle
  /\ req' = Request("POST /api/todos", authHeader, cookies, NoParam, body)
  /\ IF ~auth.pass
     THEN /\ resp' = Response(auth.status, auth.message)
          /\ ctx' = NoContext
          /\ UNCHANGED <<todos, nextTodo>>
     ELSE \E first \in IF CategoryFindFirst = {} THEN {None}
                       ELSE {Some(c) : c \in CategoryFindFirst} :
            LET out == createTodoHandler(auth.userId, Normalize(body, TodoBodyKeys), first) IN
            /\ nextTodo <= MaxTodos \/ out.todos = todos
            /\ resp' = out.resp
            /\ todos' = out.todos
            /\ nextTodo' = IF out.todos = todos THEN nextTodo ELSE nextTodo + 1
            /\ ctx' = HandlerContext(auth.userId)
  /\ UNCHANGED <<users, categories, now, hits, tx, calls>>

Next ==
  \/ SeedCategory
  \/ Complete
  \/ \E e \in SignupEmails, p \in SignupPasswords, f \in Faults : Signup(e, p, f)
  \/ \E e \in LoginEmails, p \in LoginPasswords : Login(e, p)
  \/ \E c \in Credentials : ListUsers(c[1], c[2])
  \/ \E c \in Credentials : GetMe(c[1], c[2])
  \/ \E c \in Credentials, id \in UserIdParams : GetUser(c[1], c[2], id)
  \/ \E c \in Credentials : ElysiaListUsers(c[1], c[2])
  \/ \E c \in Credentials, id \in UserIdParams : ElysiaGetUser(c[1], c[2], id)
  \/ \E c \in Credentials, w \in BOOLEAN : ListCategories(c[1], c[2], w)
  \/ \E c \in Credentials, id \in CategoryIdParams, w \in BOOLEAN : GetCategory(c[1], c[2], id, w)
  \/ \E c \in Credentials, q \in ListQueries : ListTodos(c[1], c[2], q)
  \/ \E c \in Credentials, id \in TodoIdParams : GetTodo(c[1], c[2], id)
  \/ \E c \in Credentials, b \in CreateBodies : CreateTodo(c[1], c[2], b)
  \/ \E c \in Credentials, id \in TodoIdParams, b \in UpdateBodies : UpdateTodo(c[1], c[2], id, b)
  \/ \E c \in Credentials, id \in TodoIdParams : DeleteTodo(c[1], c[2], id)

Spec == Init /\ [][Next]_vars

\* Accounts and authentication alone: signup, login, and the auth middleware
\* of each router under every header and cookie jar.
NextAuth ==
  \/ Complete
  \/ \E e \in SignupEmails, p \in SignupPasswords, f \in Faults : Signup(e, p, f)
  \/ \E e \in LoginEmails, p \in LoginPasswords : Login(e, p)
  \/ \E c \in AllCredentials : GetMe(c[1], c[2])
  \/ \E c \in AllCredentials, id \in TodoIdParams : GetTodo(c[1], c[2], id)

SpecAuth == Init /\ [][NextAuth]_vars

\* A request through the optional middleware.  No route of the repository
\* mounts it, so the handler behind it is any handler: the context says
\* whether next() was reached and with which userId, and the response is
\* written only where the middleware itself answers.
OptionalRoute(route, auth, authHeader, cookies) ==
  /\ Idle
  /\ req' = Request(route, authHeader, cookies, NoParam, NoBody)
  /\ IF ~auth.pass
     THEN resp' = Response(auth.status, auth.message) /\ ctx' = NoContext
     ELSE resp' = NoResponse /\ ctx' = HandlerContext(auth.userId)
  /\ UNCHANGED <<users, todos, categories, nextTodo, now, hits, tx, calls>>

OptionalAuth(authHeader, cookies) ==
  OptionalRoute("optionalAuth (Hono)", optionalAuth(authHeader, cookies), authHeader, cookies)

ElysiaOptionalAuth(authHeader, cookies) ==
  OptionalRoute("optionalAuth (Elysia)", elysiaOptionalAuth(authHeader, cookies),
                authHeader, cookies)

\* Accounts and the optional middleware of each framework under every header
\* and cookie jar.
NextOptional ==
  \/ Complete
  \/ \E e \in LoginEmails : Signup(e, "password1", "none")
  \/ \E c \in AllCredentials : OptionalAuth(c[1], c[2])
  \/ \E c \in AllCredentials : ElysiaOptionalAuth(c[1], c[2])

SpecOptional == Init /\ [][NextOptional]_vars

(***************************************************************************)
(* Rate limiters (lib/rate-limit) and the routes index.ts mounts them on.  *)
(***************************************************************************)
AuthLimit == 100
ApiLimit == 1000
PublicLimit == 500
WindowMs == 15 * 60 * 1000

\* requests followed past the limit of a key, and requests of the key of
\* clients that send no address header
MaxRejected == 1
MaxUnknownHits == 1

\* the x-forwarded-for header of a request: absent, or an address
ForwardedFor == {None, Some("10.0.0.1")}

\* keyGenerator of authRateLimiter and publicRateLimiter
keyGenerator(forwardedFor) == IF forwardedFor = None THEN "unknown" ELSE forwardedFor[1]

\* store.increment(key): one more hit of the key in its window
Increment(limiter, key) ==
  [hits EXCEPT ![limiter] = [@ EXCEPT ![key] = @ + 1]]

\* a limiter that rejects at the limit without counting the request
rateLimiterNotCounting(limiter, limit, key) ==
  [hits |-> hits, rejected |-> hits[limiter][key] >= limit]

\* rateLimiter({ windowMs, limit, keyGenerator, handler }): the request is
\* counted, and rejected when the key has more hits than the limit
rateLimiter(limiter, limit, key) ==
  LET counted == Increment(limiter, key) IN
  [hits |-> counted, rejected |-> counted[limiter][key] > limit]

\* c.get('ratelimit-reset') in the handler: a context variable no code of
\* the repository sets; unset, or the end of the window in ms from now
RatelimitReset == {None, Some(1), Some(WindowMs)}

\* Math.ceil((reset - Date.now()) / 1000); NaN, serialized as null, when
\* reset is undefined
RetryAfter(reset) ==
  IF reset = None THEN None ELSE Some((reset[1] + 999) \div 1000)

\* handler of a limiter: 429 with the message and retryAfter
TooManyRequests(message, reset) ==
  [Response(429, message) EXCEPT !.data = Some([retryAfter |-> RetryAfter(reset)])]

AuthLimitMessage == "Too many authentication attempts. Please try again later."
PublicLimitMessage == "Too many requests. Please try again later."

\* a request with its x-forwarded-for header
ForwardedRequest(route, forwardedFor, body) ==
  [route |-> route, authHeader |-> NoHeader, cookies |-> NoCookies, id |-> NoParam,
   body |-> body, forwardedFor |-> forwardedFor]

\* the requests followed: up to MaxRejected past the limit, and
\* MaxUnknownHits of the key "unknown"
Followed(limiter, limit, key) ==
  /\ hits[limiter][key] < limit + MaxRejected
  /\ key = "unknown" => hits[limiter][key] < MaxUnknownHits

\* POST /api/auth/login through app.use('/api/auth/*', authRateLimiter)
LimitedLogin(forwardedFor, email, password) ==
  LET key == keyGenerator(forwardedFor)
      limiter == rateLimiter("auth", AuthLimit, key) IN
  /\ Idle
  /\ Followed("auth", AuthLimit, key)
  /\ req' = ForwardedRequest("POST /api/auth/login", forwardedFor,
                             [email |-> email, password |-> password])
  /\ hits' = limiter.hits
  /\ IF limiter.rejected
     THEN /\ \E reset \in RatelimitReset : resp' = TooManyRequests(AuthLimitMessage, reset)
          /\ ctx' = NoContext
     ELSE IF ~SchemaAccepts(email, password)
     THEN resp' = ValidationFailure /\ ctx' = NoContext
     ELSE resp' = loginHandler(email, password) /\ ctx' = HandlerContext(NoUser)
  /\ UNCHANGED <<users, todos, categories, nextTodo, now, tx, calls>>

\* POST /api/auth/signup through app.use('/api/auth/*', authRateLimiter)
LimitedSignup(forwardedFor, email, password, fault) ==
  LET key == keyGenerator(forwardedFor)
      limiter == rateLimiter("auth", AuthLimit, key) IN
  /\ Idle
  /\ Followed("auth", AuthLimit, key)
  /\ req' = ForwardedRequest("POST /api/auth/signup", forwardedFor,
                             [email |-> email, password |-> password, fault |-> fault])
  /\ hits' = limiter.hits
  /\ IF limiter.rejected
     THEN /\ \E reset \in RatelimitReset : resp' = TooManyRequests(AuthLimitMessage, reset)
          /\ ctx' = NoContext
          /\ UNCHANGED users
     ELSE IF ~SchemaAccepts(email, password)
     THEN resp' = ValidationFailure /\ ctx' = NoContext /\ UNCHANGED users
     ELSE LET out == signupHandler(email, password, fault) IN
          /\ Cardinality(out.users) <= MaxUsers
          /\ resp' = out.resp
          /\ users' = out.users
          /\ ctx' = HandlerContext(NoUser)
  /\ UNCHANGED <<todos, categories, nextTodo, now, tx, calls>>

\* GET /api/categories through app.use('/api/categories*', publicRateLimiter)
LimitedListCategories(forwardedFor, withTodos) ==
  LET key == keyGenerator(forwardedFor)
      limiter == rateLimiter("public", PublicLimit, key) IN
  /\ Idle
  /\ Followed("public", PublicLimit, key)
  /\ req' = ForwardedRequest("GET /api/categories", forwardedFor,
                             [includeTodos |-> withTodos])
  /\ hits' = limiter.hits
  /\ IF limiter.rejected
     THEN /\ \E reset \in RatelimitReset : resp' = TooManyRequests(PublicLimitMessage, reset)
          /\ ctx' = NoContext
     ELSE resp' = listCategoriesHandler(withTodos) /\ ctx' = HandlerContext(NoUser)
  /\ UNCHANGED <<users, todos, categories, nextTodo, now, tx, calls>>

\* the window of a key ends: its hits are forgotten
WindowExpires(limiter, key) ==
  /\ Idle
  /\ hits[limiter][key] > 0
  /\ hits' = [hits EXCEPT ![limiter] = [@ EXCEPT ![key] = 0]]
  /\ UNCHANGED <<users, todos, categories, nextTodo, now, req, resp, ctx, tx, calls>>

\* the credentials of the requests of SpecTime and SpecRate: none, or an issued bearer token
BearerCredentials ==
  {<<NoHeader, NoCookies>>} \cup {<<Bearer(t), NoCookies>> : t \in IssuedTokens}

\* The application's rate-limited routes.
NextRate ==
  \/ Complete
  \/ \E f \in ForwardedFor : LimitedSignup(f, EmailA, "password1", "none")
  \/ \E f \in ForwardedFor : LimitedLogin(f, EmailA, "password1")
  \/ \E c \in BearerCredentials : GetMe(c[1], c[2])
  \/ \E f \in ForwardedFor : LimitedListCategories(f, TRUE)
  \/ \E l \in {"auth", "public"}, k \in RateKeys : WindowExpires(l, k)

SpecRate == Init /\ [][NextRate]_vars

\* the clock advances between requests
Tick ==
  /\ Idle
  /\ now < MaxTime
  /\ now' = now + 1
  /\ UNCHANGED <<users, todos, categories, nextTodo, req, resp, ctx, hits, tx, calls>>

\* The todo routes of one user under a running clock.
NextTime ==
  \/ SeedCategory
  \/ Complete
  \/ Tick
  \/ Signup(EmailA, "password1", "none")
  \/ \E c \in BearerCredentials, id \in TodoIdParams : GetTodo(c[1], c[2], id)
  \/ \E c \in BearerCredentials, b \in CreateBodies : CreateTodo(c[1], c[2], b)
  \/ \E c \in BearerCredentials, id \in TodoIdParams, b \in UpdateBodies :
       UpdateTodo(c[1], c[2], id, b)

SpecTime == Init /\ [][NextTime]_vars

(***************************************************************************)
(* The seed script (seed.ts): createUser, createTodo and updateTodoUser,   *)
(* each of which seed() calls or not; createCategory is SeedCategory.      *)
(* The script is a process of its own on the same database.                *)
(***************************************************************************)
SeedEmail1 == <<"test1", "@", "test.com">>
SeedEmail2 == <<"test2", "@", "test.com">>
SeedEmails == {SeedEmail1, SeedEmail2}

\* createUser: user.createMany of the two accounts, passwords as written; one
\* statement, which the unique index on email fails as a whole
SeedCreateUser ==
  /\ Idle
  /\ tx.pc # "open"
  /\ \A u \in users : u.email \notin SeedEmails
  /\ users' = users \cup
       {[id |-> UserIdOf(Cardinality(users) + 1), email |-> SeedEmail1, password |-> "password"],
        [id |-> UserIdOf(Cardinality(users) + 2), email |-> SeedEmail2, password |-> "password"]}
  /\ UNCHANGED <<todos, categories, nextTodo, now, req, resp, ctx, hits, tx, calls>>

\* createTodo: the rows of todo.createMany, without userId.  The script names
\* the categories by the ids 3 and 4 they had in its author's database; here
\* the rows name Default and Study, the categories createCategory makes.
\* The first and the last of the four rows are kept.
SeedTodoData ==
  <<[title |-> "Learn Elysia", category |-> "Default"],
    [title |-> "Finish Project", category |-> "Study"]>>

CategoryIdByName(name) == {c.id : c \in {d \in categories : d.name = name}}

\* one statement: every row is stored, or the foreign key fails it as a whole
SeedCreateTodo ==
  /\ Idle
  /\ tx.pc # "open"
  /\ nextTodo <= MaxTodos
  /\ \A i \in DOMAIN SeedTodoData : CategoryIdByName(SeedTodoData[i].category) # {}
  /\ todos' = todos \cup
       {[id |-> TodoIdOf(nextTodo + i - 1), title |-> SeedTodoData[i].title,
         completed |-> FALSE,
         categoryId |-> CHOOSE k \in CategoryIdByName(SeedTodoData[i].category) : TRUE,
         userId |-> NoUser, createdAt |-> now, updatedAt |-> now] : i \in DOMAIN SeedTodoData}
  /\ nextTodo' = nextTodo + Len(SeedTodoData)
  /\ UNCHANGED <<users, categories, now, req, resp, ctx, hits, tx, calls>>

\* the orders in which findMany() can return a set of rows
RECURSIVE Orders(_)
Orders(rows) ==
  IF rows = {} THEN {<<>>}
  ELSE UNION {{<<r>> \o o : o \in Orders(rows \ {r})} : r \in rows}

\* updateTodoUser: prisma.$transaction opens, and reads the user and the todos
TxBegin ==
  /\ Idle
  /\ tx.pc # "open"
  /\ \E rows \in Orders({t.id : t \in todos}) :
       tx' = [pc |-> "open",
              user |-> IF UserByEmail(SeedEmail1) = {} THEN None
                       ELSE Some(CHOOSE u \in UserByEmail(SeedEmail1) : TRUE),
              rows |-> rows, view |-> todos, before |-> todos]
  /\ UNCHANGED <<users, todos, categories, nextTodo, now, req, resp, ctx, hits, calls>>

\* data: { userId: user?.id }: without the user the field is undefined, and
\* an undefined field is not part of the update
OwnerPatch(user) == IF user = None THEN NoBody ELSE [userId |-> user[1].id]

\* one turn of the loop: tx.todo.update of the next row, seen by the
\* transaction alone
TxUpdate ==
  /\ tx.pc = "open"
  /\ tx.rows # <<>>
  /\ LET row == CHOOSE t \in tx.view : t.id = Head(tx.rows) IN
     tx' = [tx EXCEPT !.rows = Tail(tx.rows),
                      !.view = (tx.view \ {row}) \cup {TodoUpdate(row, OwnerPatch(tx.user))}]
  /\ UNCHANGED <<users, todos, categories, nextTodo, now, req, resp, ctx, hits, calls>>

\* the callback returns and the transaction commits what it wrote
TxCommit ==
  /\ tx.pc = "open"
  /\ tx.rows = <<>>
  /\ todos' = tx.view
  /\ tx' = [NoTx EXCEPT !.pc = "committed"]
  /\ UNCHANGED <<users, categories, nextTodo, now, req, resp, ctx, hits, calls>>

\* the transaction fails (its time limit, the script is stopped) and nothing
\* it wrote is kept
TxRollback ==
  /\ tx.pc = "open"
  /\ tx' = [NoTx EXCEPT !.pc = "rolled back"]
  /\ UNCHANGED <<users, todos, categories, nextTodo, now, req, resp, ctx, hits, calls>>

\* the credentials of the requests of SpecSeed: the token of each user, as the
\* bearer token
SeedCredentials == {<<Bearer(t), NoCookies>> : t \in IssuedTokens}

\* a statement that writes waits while the transaction holds the database
Unlocked == tx.pc # "open"

\* The seed script next to the todo routes.
NextSeed ==
  \/ SeedCategory
  \/ SeedCreateUser
  \/ SeedCreateTodo
  \/ TxBegin
  \/ TxUpdate
  \/ TxCommit
  \/ TxRollback
  \/ Complete
  \/ \E c \in SeedCredentials : ListTodos(c[1], c[2], NoBody)
  \/ \E c \in SeedCredentials, id \in TodoIdParams : GetTodo(c[1], c[2], id)
  \/ \E c \in SeedCredentials, id \in TodoIdParams :
       Unlocked /\ UpdateTodo(c[1], c[2], id, [completed |-> TRUE])
  \/ \E c \in SeedCredentials, id \in TodoIdParams : Unlocked /\ DeleteTodo(c[1], c[2], id)
  \/ \E c \in SeedCredentials : Unlocked /\ CreateTodo(c[1], c[2], [title |-> "Buy milk"])

SpecSeed == Init /\ [][NextSeed]_vars

(***************************************************************************)
(* Requests whose handlers run concurrently.  A handler gives way at each  *)
(* await: between its findUnique and its update or delete (todo.ts 172,    *)
(* 188, 229, 245), and between the hashing and user.create (lib/index.ts   *)
(* 30-38).  Each statement is atomic in the database.                      *)
(***************************************************************************)
Call(route, userId, id, body) ==
  [NoCall EXCEPT !.route = route, !.userId = userId, !.id = id, !.body = body]

Answered(call, response) == [call EXCEPT !.pc = "done", !.resp = response]

\* PUT or DELETE /api/todos/:id up to the await of its write: resolve,
\* findUnique, and the 404 and 403 tests on the row it returned
TodoCallFind(p, route, authHeader, cookies, id, body) ==
  LET auth == resolveAuth(authHeader, cookies)
      found == TodoById(id)
      call == Call(route, auth.userId, id, Normalize(body, TodoBodyKeys))
  IN /\ calls[p].pc = "free"
     /\ calls' = [calls EXCEPT ![p] =
          IF ~auth.pass THEN Answered(call, Response(auth.status, auth.message))
          ELSE IF found = {} THEN Answered(call, Response(404, "Todo not found"))
          ELSE IF \E t \in found : t.userId # auth.userId
          THEN Answered(call, Response(403, "Access denied"))
          ELSE [call EXCEPT !.pc = "found"]]
     /\ UNCHANGED <<users, todos, categories, nextTodo, now, req, resp, ctx, hits, tx>>

\* prisma.todo.update / prisma.todo.delete of the same handler: the statement
\* runs on the rows stored now; without the row it raises P2025, which the
\* handler does not catch
TodoCallWrite(p) ==
  LET call == calls[p]
      found == TodoById(call.id)
  IN /\ call.pc = "found"
     /\ IF found = {}
        THEN /\ calls' = [calls EXCEPT ![p] =
                  Answered(call, Response(500, "Record to update or delete does not exist"))]
             /\ UNCHANGED todos
        ELSE LET row == CHOOSE t \in found : TRUE
                 todo == TodoUpdate(row, call.body)
             IN IF call.route = "DELETE /api/todos/:id"
                THEN /\ todos' = todos \ {row}
                     /\ calls' = [calls EXCEPT ![p] =
                          Answered(call, [Response(200, "Todo deleted successfully")
                                            EXCEPT !.id = Some(call.id)])]
                ELSE IF \A c \in categories : c.id # todo.categoryId
                THEN /\ calls' = [calls EXCEPT ![p] =
                          Answered(call, Response(500, "Foreign key constraint failed"))]
                     /\ UNCHANGED todos
                ELSE /\ todos' = (todos \ {row}) \cup {todo}
                     /\ calls' = [calls EXCEPT ![p] =
                          Answered(call, [Response(200, "") EXCEPT !.todos = {TodoView(todo)}])]
     /\ UNCHANGED <<users, categories, nextTodo, now, req, resp, ctx, hits, tx>>

\* POST /api/auth/signup up to the await of user.create: the schema, the
\* tests of signUp on email and password, and the hashing
SignupCallStart(p, email, password) ==
  LET call == Call("POST /api/auth/signup", NoUser, NoParam,
                   [email |-> email, password |-> password])
      early == signUp(email, password, "none")
  IN /\ calls[p].pc = "free"
     /\ calls' = [calls EXCEPT ![p] =
          IF ~SchemaAccepts(email, password) THEN Answered(call, ValidationFailure)
          ELSE IF early.threw /\ early.error.name = "InvalidUserDataError"
          THEN Answered(call, [Response(400, "User creation failed") EXCEPT
                                 !.data = Some(SerializedError(early.error))])
          ELSE [call EXCEPT !.pc = "hashed"]]
     /\ UNCHANGED <<users, todos, categories, nextTodo, now, req, resp, ctx, hits, tx>>

\* prisma.user.create of the same signup, on the users stored now, and the
\* handler's answer
SignupCallCreate(p) ==
  LET call == calls[p]
      out == signupHandler(call.body.email, call.body.password, "none")
  IN /\ call.pc = "hashed"
     /\ Cardinality(out.users) <= MaxUsers
     /\ users' = out.users
     /\ calls' = [calls EXCEPT ![p] = Answered(call, out.resp)]
     /\ UNCHANGED <<todos, categories, nextTodo, now, req, resp, ctx, hits, tx>>

\* the response of a call is sent
CallComplete(p) ==
  /\ calls[p].pc = "done"
  /\ calls' = [calls EXCEPT ![p] = NoCall]
  /\ UNCHANGED <<users, todos, categories, nextTodo, now, req, resp, ctx, hits, tx>>

\* bodies of the concurrent PUT requests
CallBodies == {[completed |-> TRUE], [title |-> "Walk dog"]}

\* One user's requests on their todos in every interleaving.
NextConcurrent ==
  \/ SeedCategory
  \/ Complete
  \/ Signup(EmailA, "password1", "none")
  \/ \E c \in BearerCredentials : CreateTodo(c[1], c[2], [title |-> "Buy milk"])
  \/ \E p \in Calls, c \in BearerCredentials, id \in TodoIdParams, b \in CallBodies :
       TodoCallFind(p, "PUT /api/todos/:id", c[1], c[2], id, b)
  \/ \E p \in Calls, c \in BearerCredentials, id \in TodoIdParams :
       TodoCallFind(p, "DELETE /api/todos/:id", c[1], c[2], id, NoBody)
  \/ \E p \in Calls : TodoCallWrite(p)
  \/ \E p \in Calls : CallComplete(p)

SpecConcurrent == Init /\ [][NextConcurrent]_vars

\* Signups in every interleaving.
NextSignups ==
  \/ \E p \in Calls, e \in SignupEmails, w \in SignupPasswords : SignupCallStart(p, e, w)
  \/ \E p \in Calls : SignupCallCreate(p)
  \/ \E p \in Calls : CallComplete(p)

SpecSignups == Init /\ [][NextSignups]_vars

(***************************************************************************)
(* prisma.user.signUp called on its own, with every email, password and    *)
(* fault.                                                                  *)
(***************************************************************************)
SignUpFaults == Faults \cup {"PrismaClientInitializationError"}

\* what the caller of signUp gets: the user stored, or the error raised
SignUpCall(email, password, fault) ==
  LET r == signUp(email, password, fault) IN
  /\ Idle
  /\ Cardinality(r.users) <= MaxUsers
  /\ req' = Request("prisma.user.signUp", NoHeader, NoCookies, NoParam,
                    [email |-> email, password |-> password, fault |-> fault])
  /\ resp' = IF r.threw
             THEN [Response(r.error.status, r.error.message) EXCEPT !.data = Some(r.error)]
             ELSE [Response(0, "") EXCEPT !.users = r.users \ users]
  /\ users' = r.users
  /\ ctx' = HandlerContext(NoUser)
  /\ UNCHANGED <<todos, categories, nextTodo, now, hits, tx, calls>>

NextSignUp ==
  \/ Complete
  \/ \E e \in Emails, w \in Passwords, f \in SignUpFaults : SignUpCall(e, w, f)

SpecSignUp == Init /\ [][NextSignUp]_vars

(***************************************************************************)
(* Vocabulary of the properties.                                           *)
(***************************************************************************)
\* the request carries no credential at all
NoCredential(r) == r.authHeader = NoHeader /\ r.cookies = NoCookies

\* the request carries the token login issues to user uid, as the bearer
\* token or, without an Authorization header, as the cookie
PresentsTokenOf(r, uid) ==
  \/ r.authHeader = Bearer(signToken(uid))
  \/ r.authHeader = NoHeader /\ r.cookies = TokenCookie(signToken(uid))

\* the caller is authenticated as an existing user
Authenticated(r) == \E u \in users : PresentsTokenOf(r, u.id)

\* a todo view shows the row
Shows(view, todo) ==
  /\ view.id = todo.id
  /\ view.title = todo.title
  /\ view.completed = todo.completed
  /\ view.categoryId = todo.categoryId
  /\ view.userId = todo.userId

(***************************************************************************)
(* C1.  For every todo with an owner, GET /api/todos/{id} answers 200 with *)
(* the todo to a caller authenticated as the owner, 403 to a caller        *)
(* authenticated as any other user, and 401 to a request without           *)
(* credential.                                                             *)
(***************************************************************************)
C1_GetTodoByCaller ==
  req.route = "GET /api/todos/:id" =>
    \A t \in todos :
      (t.id = req.id /\ t.userId # NoUser) =>
        /\ PresentsTokenOf(req, t.userId) =>
             /\ resp.status = 200
             /\ \E v \in resp.todos : resp.todos = {v} /\ Shows(v, t)
        /\ (\E u \in users : u.id # t.userId /\ PresentsTokenOf(req, u.id)) =>
             resp.status = 403 /\ resp.todos = {}
        /\ NoCredential(req) => resp.status = 401 /\ resp.todos = {}

\* another user asked for an owned todo and was refused
C1_Witness ==
  /\ req.route = "GET /api/todos/:id"
  /\ resp.status = 403
  /\ \E t \in todos, u \in users :
       t.id = req.id /\ t.userId # NoUser /\ u.id # t.userId /\ PresentsTokenOf(req, u.id)

(***************************************************************************)
(* C2.  As claimed: for an id that matches no stored todo,                 *)
(* GET /api/todos/{id} answers 404 to every caller.                        *)
(***************************************************************************)
C2_Original_404ForEveryCaller ==
  (req.route = "GET /api/todos/:id" /\ TodoById(req.id) = {}) => resp.status = 404

(***************************************************************************)
(* C2, amended.  For an id that matches no stored todo,                    *)
(* GET /api/todos/{id} answers 404 to every authenticated caller; a        *)
(* request whose credential is missing or does not verify is answered 401  *)
(* before the lookup.                                                      *)
(***************************************************************************)
C2_404ForAuthenticatedCaller ==
  (req.route = "GET /api/todos/:id" /\ TodoById(req.id) = {}) =>
    IF Authenticated(req)
    THEN resp.status = 404 /\ resp.message = "Todo not found"
    ELSE resp.status = 401 /\ ~ctx.handlerRan

\* an authenticated caller asked for an id that matches nothing
C2_Witness ==
  /\ req.route = "GET /api/todos/:id"
  /\ TodoById(req.id) = {}
  /\ Authenticated(req)
  /\ resp.status = 404

(***************************************************************************)
(* C3.  PUT and DELETE /api/todos/{id} by an authenticated caller who is   *)
(* not the owner answer 403 and leave the stored todo, and everything      *)
(* else, as it was; for an id that matches no todo they answer 404 and     *)
(* change nothing.                                                         *)
(***************************************************************************)
C3_Step ==
  (Idle /\ req'.route \in {"PUT /api/todos/:id", "DELETE /api/todos/:id"}
        /\ \E u \in users : PresentsTokenOf(req', u.id)) =>
    /\ TodoById(req'.id) = {} =>
         resp'.status = 404 /\ UNCHANGED <<users, todos, categories>>
    /\ (\E t \in TodoById(req'.id) : ~PresentsTokenOf(req', t.userId)) =>
         resp'.status = 403 /\ UNCHANGED <<users, todos, categories>>

C3_NonOwnerChangesNothing == [][C3_Step]_vars

\* another user's DELETE was refused
C3_Witness ==
  /\ req.route = "DELETE /api/todos/:id"
  /\ resp.status = 403
  /\ \E t \in todos, u \in users :
       t.id = req.id /\ u.id # t.userId /\ PresentsTokenOf(req, u.id)

(***************************************************************************)
(* C4.  GET /api/todos answers only todos whose userId is the              *)
(* authenticated caller's id, and every one of them when no categoryId     *)
(* filter is given.                                                        *)
(***************************************************************************)
C4_ListOnlyOwnTodos ==
  req.route = "GET /api/todos" =>
    \A u \in users :
      PresentsTokenOf(req, u.id) =>
        /\ resp.status = 200
        /\ \A v \in resp.todos : v.userId = u.id /\ \E t \in todos : Shows(v, t)
        /\ "categoryId" \notin DOMAIN req.body =>
             \A t \in todos : t.userId = u.id => \E v \in resp.todos : Shows(v, t)

\* the caller got a todo of theirs while another user's todo is stored
C4_Witness ==
  /\ req.route = "GET /api/todos"
  /\ "categoryId" \notin DOMAIN req.body
  /\ resp.todos # {}
  /\ \E t \in todos : \A v \in resp.todos : v.userId # t.userId

(***************************************************************************)
(* C5.  As claimed: on every endpoint (todos, categories, users) a         *)
(* response that contains a todo's data is sent only to a caller           *)
(* authenticated as that todo's owner.                                     *)
(***************************************************************************)
\* the owners of the todos a response carries, at the top level or nested in
\* a category or a user
TodoOwnersIn(r) ==
  ({v.userId : v \in r.todos}
     \cup {t.userId : t \in UNION {c.todos : c \in {x \in r.categories : "todos" \in DOMAIN x}}}
     \cup {u.id : u \in {x \in r.users : "todos" \in DOMAIN x /\ x.todos # {}}})
  \ {NoUser, ""}

C5_Original_OwnerOnlyReads == \A o \in TodoOwnersIn(resp) : PresentsTokenOf(req, o)

(***************************************************************************)
(* C6.  As claimed: no response of any handler (signup, login, list users, *)
(* get self, get user by id) carries a user's password or password hash.   *)
(***************************************************************************)
C6_Original_NoPasswordInResponse == \A u \in resp.users : "password" \notin DOMAIN u

(***************************************************************************)
(* C7.  Where the persistence layer answers, a signup with a valid payload *)
(* whose email no user has succeeds and creates exactly one user, with     *)
(* that email; a signup with an email some user has fails with 400,        *)
(* "User with this email already exists" and details carrying the email,   *)
(* and creates no user; and no two users ever have the same email.         *)
(***************************************************************************)
C7_UniqueEmails == \A u, v \in users : u.email = v.email => u = v

C7_Step ==
  (Idle /\ req'.route = "POST /api/auth/signup"
        /\ SchemaAccepts(req'.body.email, req'.body.password)
        /\ req'.body.fault = "none") =>
    IF \A u \in users : u.email # req'.body.email
    THEN /\ resp'.status = 200
         /\ \E u \in users' \ users :
              /\ users' = users \cup {u}
              /\ u.email = req'.body.email
         /\ Cardinality(users') = Cardinality(users) + 1
    ELSE /\ resp'.status = 400
         /\ resp'.message = "User with this email already exists"
         /\ resp'.data = Some([email |-> req'.body.email])
         /\ users' = users

C7_SignupOncePerEmail == []C7_UniqueEmails /\ [][C7_Step]_vars

\* a second signup with an email was refused while one user has it
C7_Witness ==
  /\ req.route = "POST /api/auth/signup"
  /\ resp.message = "User with this email already exists"
  /\ Cardinality({u \in users : u.email = req.body.email}) = 1

(***************************************************************************)
(* C8.  A login with an existing user's email and correct password answers *)
(* 200 with a token; the required auth middleware, given that token,       *)
(* yields exactly that user's id; and the same token is set as the cookie  *)
(* `token`, HttpOnly, SameSite=Lax, Max-Age of 7 days, Path=/.             *)
(***************************************************************************)
C8_LoginTokenRoundTrip ==
  req.route = "POST /api/auth/login" =>
    \A u \in users :
      (u.email = req.body.email /\ u.password = PasswordHash(req.body.password)) =>
        /\ resp.status = 200
        /\ resp.token # None
        /\ authMiddleware(Bearer(resp.token[1]), NoCookies) = Passed(u.id)
        /\ resolveAuth(Bearer(resp.token[1]), NoCookies) = Passed(u.id)
        /\ resp.setCookie # None
        /\ resp.setCookie[1] = [name |-> "token", value |-> resp.token[1], httpOnly |-> TRUE,
                                sameSite |-> "Lax", maxAge |-> 604800, path |-> "/"]
        /\ authMiddleware(NoHeader, [token |-> resp.setCookie[1].value]) = Passed(u.id)

\* the second user logged in
C8_Witness ==
  /\ req.route = "POST /api/auth/login"
  /\ resp.status = 200
  /\ \E u \in users : u.id = UserIdOf(2) /\ u.email = req.body.email

(***************************************************************************)
(* C9.  As claimed: a login with a wrong password and a login with an      *)
(* unknown email both fail with 400, and the two failure responses are     *)
(* the same.                                                               *)
(***************************************************************************)
\* the login would fail: nobody has the email, or the password is not theirs
LoginFails(email, password) ==
  \A u \in users : u.email = email => u.password # PasswordHash(password)

C9_Original_FailuresIndistinguishable ==
  (req.route = "POST /api/auth/login" /\ LoginFails(req.body.email, req.body.password)) =>
    /\ resp.status = 400
    /\ \A e \in LoginEmails, p \in LoginPasswords :
         LoginFails(e, p) => loginHandler(e, p) = resp

(***************************************************************************)
(* C10.  The required auth middleware, on the routes of both routers:      *)
(* a request without credential is answered 401 "Authentication required"; *)
(* a request whose credential fails verification (malformed, signed with   *)
(* another secret, expired, payload without a string id) is answered 401   *)
(* "Invalid or expired token"; in both cases the handler does not run.     *)
(* The handler runs only when a presented token verifies, and then with    *)
(* the id of that token as userId.                                         *)
(***************************************************************************)
\* the request presents token t: as the bearer token, or in the cookie with
\* no Authorization header
Presents(r, t) ==
  \/ r.authHeader = Bearer(t)
  \/ r.authHeader = NoHeader /\ r.cookies = TokenCookie(t)

C11_HeaderBeforeCookie ==
  req.route \in {"GET /api/users/me", "GET /api/todos/:id"} =>
    \A u, v \in users :
      /\ (u.id # v.id /\ req.authHeader = Bearer(signToken(u.id))
                      /\ req.cookies = TokenCookie(signToken(v.id))) =>
           /\ ctx.handlerRan /\ ctx.userId = u.id
           /\ req.route = "GET /api/users/me" => \A w \in resp.users : w.id = u.id
      /\ (req.authHeader = NoHeader /\ req.cookies = TokenCookie(signToken(v.id))) =>
           /\ ctx.handlerRan /\ ctx.userId = v.id
           /\ req.route = "GET /api/users/me" => \A w \in resp.users : w.id = v.id

\* header and cookie carried valid tokens of different users
C11_Witness ==
  /\ req.route = "GET /api/users/me"
  /\ \E u, v \in users :
       /\ u.id # v.id
       /\ req.authHeader = Bearer(signToken(u.id))
       /\ req.cookies = TokenCookie(signToken(v.id))
       /\ resp.status = 200
       /\ \E w \in resp.users : w.id = u.id

(***************************************************************************)
(* C12.  Every todo POST /api/todos creates has the authenticated caller's *)
(* id as userId, whatever userId the body carries, and has completed =     *)
(* false when the body has no completed field.                             *)
(***************************************************************************)
C12_Step ==
  (Idle /\ req'.route = "POST /api/todos") =>
    /\ resp'.status = 200 => \E t \in todos' \ todos : todos' = todos \cup {t}
    /\ \A t \in todos' \ todos :
         /\ PresentsTokenOf(req', t.userId)
         /\ "completed" \notin DOMAIN req'.body => t.completed = FALSE
         /\ \E v \in resp'.todos : Shows(v, t)

C12_CreatedForCaller == [][C12_Step]_vars

\* a todo was created for the caller by a body naming another user
C12_Witness ==
  /\ req.route = "POST /api/todos"
  /\ resp.status = 200
  /\ "userId" \in DOMAIN req.body
  /\ \E t \in todos, v \in resp.todos :
       v.id = t.id /\ t.userId # req.body.userId /\ PresentsTokenOf(req, t.userId)

(***************************************************************************)
(* C13.  POST /api/todos by an authenticated caller with a body that has   *)
(* no categoryId creates the todo with the id of a category that exists,   *)
(* when one exists; when none exists it answers 400 and creates no todo.   *)
(***************************************************************************)
C13_Step ==
  (Idle /\ req'.route = "POST /api/todos"
        /\ (\E u \in users : PresentsTokenOf(req', u.id))
        /\ "categoryId" \notin DOMAIN req'.body) =>
    IF categories # {}
    THEN /\ resp'.status = 200
         /\ \E t \in todos' \ todos :
              /\ todos' = todos \cup {t}
              /\ \E c \in categories : t.categoryId = c.id
    ELSE /\ resp'.status = 400
         /\ todos' = todos

C13_DefaultCategory == [][C13_Step]_vars

\* a todo was created without categoryId while two categories exist
C13_Witness ==
  /\ req.route = "POST /api/todos"
  /\ "categoryId" \notin DOMAIN req.body
  /\ resp.status = 200
  /\ Cardinality(categories) = 2
  /\ \E v \in resp.todos, c \in categories : v.categoryId = c.id

(***************************************************************************)
(* C14.  A DELETE /api/todos/{id} by the owner of an existing todo answers *)
(* 200 with the confirmation message and the deleted id and removes the    *)
(* todo.  From then on a second DELETE for the id answers 404 and changes  *)
(* nothing, GET /api/todos/{id} answers 404, and no list holds the todo.   *)
(***************************************************************************)
\* the id was given to a todo that is stored no more; ids are not given twice
Deleted(id) ==
  /\ \E n \in 1..(nextTodo - 1) : id = TodoIdOf(n)
  /\ \A t \in todos : t.id # id

C14_Step ==
  Idle =>
    /\ (req'.route = "DELETE /api/todos/:id"
          /\ \E t \in todos : t.id = req'.id /\ PresentsTokenOf(req', t.userId)) =>
         /\ resp'.status = 200
         /\ resp'.message = "Todo deleted successfully"
         /\ resp'.id = Some(req'.id)
         /\ todos' = {t \in todos : t.id # req'.id}
         /\ todos' # todos
    /\ (req'.route = "DELETE /api/todos/:id" /\ Deleted(req'.id)
          /\ \E u \in users : PresentsTokenOf(req', u.id)) =>
         /\ resp'.status = 404
         /\ UNCHANGED <<users, todos, categories>>
    /\ (req'.route = "GET /api/todos/:id" /\ Deleted(req'.id)
          /\ \E u \in users : PresentsTokenOf(req', u.id)) =>
         resp'.status = 404 /\ resp'.todos = {}
    /\ req'.route = "GET /api/todos" => \A v \in resp'.todos : ~Deleted(v.id)

C14_DeleteTwice == [][C14_Step]_vars

\* the second DELETE of a deleted todo was answered 404
C14_Witness ==
  /\ req.route = "DELETE /api/todos/:id"
  /\ Deleted(req.id)
  /\ Authenticated(req)
  /\ resp.status = 404

(***************************************************************************)
(* C15.  PUT /api/todos/{id} by the owner changes, of title, completed and *)
(* categoryId, only the fields present in the patch; it never changes the  *)
(* todo's id or userId (nor createdAt, nor any other todo); with an empty  *)
(* patch every field but updatedAt stays as it was.                        *)
(***************************************************************************)
C15_Step ==
  (Idle /\ req'.route = "PUT /api/todos/:id") =>
    \A t \in todos :
      (t.id = req'.id /\ PresentsTokenOf(req', t.userId)) =>
        \E t2 \in todos' :
          /\ todos' = (todos \ {t}) \cup {t2}
          /\ t2.id = t.id
          /\ t2.userId = t.userId
          /\ t2.createdAt = t.createdAt
          /\ \A f \in {"title", "completed", "categoryId"} :
               f \notin DOMAIN req'.body => t2[f] = t[f]
          /\ resp'.status = 200 =>
               \A f \in {"title", "completed", "categoryId"} :
                 f \in DOMAIN req'.body => t2[f] = req'.body[f]
          /\ req'.body = NoBody =>
               /\ resp'.status = 200
               /\ \A f \in DOMAIN t : f # "updatedAt" => t2[f] = t[f]

C15_UpdateFrame == [][C15_Step]_vars

\* an empty patch moved updatedAt past createdAt and nothing else
C15_Witness ==
  /\ req.route = "PUT /api/todos/:id"
  /\ req.body = NoBody
  /\ resp.status = 200
  /\ \E t \in todos :
       t.id = req.id /\ t.updatedAt = now /\ t.createdAt < now /\ t.title = "Buy milk"

(***************************************************************************)
(* C16.  Round trip: when POST /api/todos has answered 200 with a todo,    *)
(* GET /api/todos/{id} for the returned id, sent next with the same        *)
(* credential, answers 200 with the title, completed and categoryId of the *)
(* create response, and with createdAt not later than updatedAt.           *)
(***************************************************************************)
C16_CreateThenGet ==
  (req.route = "POST /api/todos" /\ resp.status = 200) =>
    /\ resp.todos # {}
    /\ \A v \in resp.todos :
         LET auth == resolveAuth(req.authHeader, req.cookies)
             got == getTodoHandler(auth.userId, v.id).resp
         IN /\ auth.pass
            /\ got.status = 200
            /\ \E w \in got.todos :
                 /\ got.todos = {w}
                 /\ w.id = v.id
                 /\ w.title = v.title
                 /\ w.completed = v.completed
                 /\ w.categoryId = v.categoryId
                 /\ w.createdAt.seconds <= w.updatedAt.seconds

\* a todo was created on the default category, a second after the start
C16_Witness ==
  /\ req.route = "POST /api/todos"
  /\ resp.status = 200
  /\ "categoryId" \in DOMAIN req.body /\ req.body.categoryId = 0
  /\ \E v \in resp.todos : v.createdAt.seconds = 1 /\ v.categoryId \in {c.id : c \in categories}

(***************************************************************************)
(* C17.  GET /api/users/{id} answers the profile only when id is the       *)
(* authenticated caller's id; for every other id it answers 403, and the   *)
(* same 403 whether or not a user has that id.                             *)
(***************************************************************************)
C17_OwnProfileOnly ==
  req.route = "GET /api/users/{id}" =>
    /\ \A p \in resp.users : p.id = req.id /\ PresentsTokenOf(req, p.id)
    /\ \A u \in users :
         PresentsTokenOf(req, u.id) =>
           IF req.id = u.id
           THEN /\ resp.status = 200
                /\ \E p \in resp.users : resp.users = {p} /\ p.id = u.id /\ p.email = u.email
           ELSE /\ resp.status = 403
                /\ resp.users = {}
                /\ \A id \in UserIdParams : id # u.id => getUserHandler(u.id, id) = resp

\* the profile of an id no user has was refused
C17_Witness ==
  /\ req.route = "GET /api/users/{id}"
  /\ Authenticated(req)
  /\ \A u \in users : u.id # req.id
  /\ resp.status = 403

(***************************************************************************)
(* C18.  As claimed: for each mounted rate limiter (auth routes, limit     *)
(* 100; public category routes, limit 500), once a key has made `limit`    *)
(* requests inside one window its next request inside the window is        *)
(* rejected with 429 and a positive retryAfter, while the requests of      *)
(* another key are admitted and the other keys' counts are untouched.      *)
(***************************************************************************)
\* the limiter index.ts mounts in front of a route, and its limit
MountedLimiter(route) ==
  IF route \in {"POST /api/auth/login", "POST /api/auth/signup"} THEN "auth" ELSE "public"

MountedLimit(route) ==
  IF route \in {"POST /api/auth/login", "POST /api/auth/signup"} THEN 100 ELSE 500

\* the key of a request: its x-forwarded-for address, or "unknown"
KeyOf(r) == IF r.forwardedFor = None THEN "unknown" ELSE r.forwardedFor[1]

C18_Step ==
  (Idle /\ req'.route \in {"POST /api/auth/login", "POST /api/auth/signup",
                           "GET /api/categories"}) =>
    LET l == MountedLimiter(req'.route)
        limit == MountedLimit(req'.route)
        key == KeyOf(req')
    IN /\ hits[l][key] >= limit =>
            /\ resp'.status = 429
            /\ resp'.data # None
            /\ resp'.data[1].retryAfter # None
            /\ resp'.data[1].retryAfter[1] > 0
       /\ hits[l][key] < limit => resp'.status # 429
       /\ \A l2 \in Limiters, k2 \in RateKeys :
            (l2 # l \/ k2 # key) => hits'[l2][k2] = hits[l2][k2]

C18_Original_LimitAndRetryAfter == [][C18_Step]_vars

(***************************************************************************)
(* C19.  As claimed: every request to an authenticated route (/api/todos,  *)
(* /api/users) passes a fixed-window limiter keyed by the authenticated    *)
(* user id with a budget of 1000 per window: it is counted against its     *)
(* user's key, and rejected with 429 once that key has 1000 hits in the    *)
(* window.                                                                 *)
(***************************************************************************)
AuthenticatedRoutes ==
  {"GET /api/users", "GET /api/users/me", "GET /api/users/{id}", "GET /api/todos",
   "GET /api/todos/:id", "POST /api/todos", "PUT /api/todos/:id", "DELETE /api/todos/:id"}

C19_Step ==
  (Idle /\ req'.route \in AuthenticatedRoutes) =>
    \A u \in users :
      PresentsTokenOf(req', u.id) =>
        /\ hits'["api"][UserKey(u.id)] = hits["api"][UserKey(u.id)] + 1
        /\ hits["api"][UserKey(u.id)] >= ApiLimit => resp'.status = 429
        /\ hits["api"][UserKey(u.id)] < ApiLimit => resp'.status # 429

C19_Original_UserBudget == [][C19_Step]_vars

(***************************************************************************)
(* C20.  As claimed: a signup that fails for a reason other than the email *)
(* conflict or invalid user data (the persistence call or the hashing      *)
(* raises) is answered with status 500 and a body that carries none of the *)
(* internal error's detail.                                                *)
(***************************************************************************)
C20_Original_Opaque500 ==
  (/\ req.route = "POST /api/auth/signup"
   /\ SchemaAccepts(req.body.email, req.body.password)
   /\ req.body.fault # "none"
   /\ resp.status # 429) =>
    /\ resp.status = 500
    /\ resp.data = None

(***************************************************************************)
(* C21.  The optional auth middleware never rejects: whatever the request  *)
(* carries (nothing, a valid token, a token that is malformed, forged,     *)
(* expired or without a string id), the handler behind it runs and the     *)
(* middleware writes no response; userId is attached exactly when the      *)
(* token taken from the request verifies and its payload has a string id,  *)
(* and is then that id.                                                    *)
(***************************************************************************)
OptionalRoutes == {"optionalAuth (Hono)", "optionalAuth (Elysia)"}

\* the token the request presents verifies and carries the string id uid
VerifiesAs(r, uid) ==
  \E t \in {JwtSign([id |-> JStr(uid)], JWT_SECRET)} :
    \/ r.authHeader = Bearer(t)
    \/ ~StartsWithBearer(r.authHeader) /\ r.cookies = TokenCookie(t)

C22_ForeignKey == \A t \in todos : \E c \in categories : c.id = t.categoryId

\* the body of the request supplies a categoryId that references no category
SuppliesDanglingCategory(r) ==
  /\ r.route \in {"POST /api/todos", "PUT /api/todos/:id"}
  /\ "categoryId" \in DOMAIN r.body
  /\ \A c \in categories : c.id # r.body.categoryId

C22_Step ==
  /\ (Idle /\ SuppliesDanglingCategory(req')) =>
       /\ todos' = todos
       /\ categories' = categories
       /\ users' = users
  /\ \A c \in categories \ categories' : \A t \in todos' : t.categoryId # c.id

C22_Original_ForeignKeyEnforced == []C22_ForeignKey /\ [][C22_Step]_vars

(***************************************************************************)
(* C23.  As claimed: GET /api/todos with a categoryId query parameter      *)
(* answers, for every integer supplied, only todos of the caller whose     *)
(* categoryId is exactly that integer.                                     *)
(***************************************************************************)
C23_Original_FilterByCategory ==
  (req.route = "GET /api/todos" /\ "categoryId" \in DOMAIN req.body) =>
    \A u \in users :
      PresentsTokenOf(req, u.id) =>
        \A v \in resp.todos : v.categoryId = req.body.categoryId /\ v.userId = u.id

(***************************************************************************)
(* C24.  As claimed: the seed's assignment of owners is atomic.  While its *)
(* transaction is open the stored todos are those of its start, none       *)
(* reassigned; and when it commits, every todo that existed at its start   *)
(* is stored with the id of one of the seeded users as userId.             *)
(***************************************************************************)
C24_NothingVisibleBeforeCommit == tx.pc = "open" => todos = tx.before

C24_Step ==
  (tx.pc = "open" /\ tx'.pc = "committed") =>
    \A t \in tx.before :
      \E a \in todos' :
        /\ a.id = t.id
        /\ \E u \in users : u.email \in SeedEmails /\ a.userId = u.id

C24_Original_AtomicAssignment == []C24_NothingVisibleBeforeCommit /\ [][C24_Step]_vars

(***************************************************************************)
(* C25.  The limiter runs in front of the route handler.  A request that   *)
(* is answered 429 did not reach the handler: nothing stored changes, and  *)
(* the response carries no token and sets no cookie.  On /api/auth/* every *)
(* request that is admitted adds one to the hits of its caller's key,      *)
(* whether the login or signup then succeeds or fails.                     *)
(***************************************************************************)
AuthRoutes == {"POST /api/auth/login", "POST /api/auth/signup"}

C25_Step ==
  (Idle /\ req'.route \in AuthRoutes \cup {"GET /api/categories"}) =>
    /\ resp'.status = 429 =>
         /\ ~ctx'.handlerRan
         /\ users' = users /\ todos' = todos /\ categories' = categories
         /\ resp'.token = None /\ resp'.setCookie = None
         /\ resp'.users = {} /\ resp'.categories = {}
    /\ (req'.route \in AuthRoutes /\ resp'.status # 429) =>
         hits'["auth"][KeyOf(req')] = hits["auth"][KeyOf(req')] + 1

C25_LimiterBeforeHandler == [][C25_Step]_vars

\* a login with the right password was refused by the limiter, and a signup
\* and a login before it were admitted and counted
C25_Witness ==
  /\ req.route = "POST /api/auth/login"
  /\ resp.status = 429
  /\ ~ctx.handlerRan
  /\ resp.token = None
  /\ \E u \in users : u.email = req.body.email
                        /\ PasswordVerify(req.body.password, u.password)
  /\ hits["auth"][KeyOf(req)] > AuthLimit

(***************************************************************************)
(* C26.  As claimed: when the owner of a todo sends PUT and DELETE         *)
(* requests for it concurrently, in every interleaving each request is     *)
(* answered 200 or 404, and at most one DELETE of the todo is answered     *)
(* 200.                                                                    *)
(***************************************************************************)
TodoWrites == {"PUT /api/todos/:id", "DELETE /api/todos/:id"}

\* the caller of the call owns the todo, or owned it before it was deleted
ByOwner(call) ==
  /\ call.route \in TodoWrites
  /\ call.userId # NoUser
  /\ \A t \in TodoById(call.id) : t.userId = call.userId
  /\ \A u \in users : u.id = call.userId

C26_Original_Classified ==
  /\ \A p \in Calls :
       (calls[p].pc = "done" /\ ByOwner(calls[p])) => calls[p].resp.status \in {200, 404}
  /\ \A p, q \in Calls :
       (/\ p # q
        /\ calls[p].pc = "done" /\ calls[q].pc = "done"
        /\ calls[p].route = "DELETE /api/todos/:id" /\ calls[q].route = calls[p].route
        /\ calls[p].id = calls[q].id
        /\ calls[p].resp.status = 200) => calls[q].resp.status # 200

(***************************************************************************)
(* C27.  Signups with the same email that run concurrently: in every       *)
(* interleaving the request whose user.create runs first creates the user  *)
(* and is answered 200, every other one is answered 400 with "User with    *)
(* this email already exists" and the email as details and creates         *)
(* nothing, and at no point do two users have that email.                  *)
(***************************************************************************)
C27_OneUserPerEmail ==
  \A e \in SignupEmails : Cardinality({u \in users : u.email = e}) <= 1

\* of the calls answered, at most one per email succeeded
C27_OneSuccess ==
  \A p, q \in Calls :
    (/\ calls[p].pc = "done" /\ calls[q].pc = "done"
     /\ calls[p].route = "POST /api/auth/signup" /\ calls[q].route = calls[p].route
     /\ calls[p].body.email = calls[q].body.email
     /\ calls[p].resp.status = 200 /\ calls[q].resp.status = 200) => p = q

C27_Step ==
  \A p \in Calls :
    (calls[p].pc = "hashed" /\ calls'[p].pc = "done") =>
      IF \A u \in users : u.email # calls[p].body.email
      THEN /\ calls'[p].resp.status = 200
           /\ \E u \in users' \ users :
                /\ users' = users \cup {u}
                /\ u.email = calls[p].body.email
      ELSE /\ calls'[p].resp.status = 400
           /\ calls'[p].resp.message = "User with this email already exists"
           /\ calls'[p].resp.data = Some([email |-> calls[p].body.email])
           /\ users' = users

C27_ConcurrentSignups ==
  [](C27_OneUserPerEmail /\ C27_OneSuccess) /\ [][C27_Step]_vars

\* two signups with one email were answered side by side: 200 and 400
C27_Witness ==
  \E p, q \in Calls :
    /\ calls[p].pc = "done" /\ calls[q].pc = "done"
    /\ calls[p].body.email = calls[q].body.email
    /\ calls[p].resp.status = 200
    /\ calls[q].resp.status = 400
    /\ calls[q].resp.message = "User with this email already exists"
    /\ Cardinality({u \in users : u.email = calls[p].body.email}) = 1

(***************************************************************************)
(* C28.  A todo without owner (userId null, as the seed's createTodo       *)
(* stores it) cannot be reached through the todo routes: GET, PUT and      *)
(* DELETE /api/todos/{id} by any authenticated caller answer 403, GET      *)
(* /api/todos shows it to no caller, and no request to a todo route        *)
(* changes it or gives it an owner.                                        *)
(***************************************************************************)
TodoRoutes ==
  {"GET /api/todos", "GET /api/todos/:id", "POST /api/todos", "PUT /api/todos/:id",
   "DELETE /api/todos/:id"}

Orphans == {t \in todos : t.userId = NoUser}

C28_Step ==
  (Idle /\ req'.route \in TodoRoutes) =>
    /\ \A t \in Orphans : t \in todos'
    /\ \A t \in Orphans :
         (/\ Authenticated(req')
          /\ req'.route \in {"GET /api/todos/:id", "PUT /api/todos/:id", "DELETE /api/todos/:id"}
          /\ req'.id = t.id) => resp'.status = 403 /\ resp'.todos = {}
    /\ \A t \in Orphans : \A v \in resp'.todos : v.id # t.id

C28_OrphansUnreachable == [][C28_Step]_vars

\* a seeded user's PUT on a todo without owner was refused
C28_Witness ==
  /\ req.route = "PUT /api/todos/:id"
  /\ Authenticated(req)
  /\ \E t \in Orphans : t.id = req.id
  /\ resp.status = 403

(***************************************************************************)
(* C29.  When the Authorization header starts with "Bearer " the cookie is *)
(* not looked at: an empty bearer token is answered 401 "Authentication    *)
(* required" and a bearer token that fails verification 401 "Invalid or    *)
(* expired token", whatever the cookie `token` holds, and a handler that   *)
(* runs does so as the bearer token's user.  The cookie decides only when  *)
(* the header is absent or does not start with "Bearer ".                  *)
(***************************************************************************)
ValidToken(n) == JwtSign([id |-> JStr(UserIdOf(n))], JWT_SECRET)

Refused(message) == resp.status = 401 /\ resp.message = message /\ ~ctx.handlerRan

Raised(r, name, code, status) ==
  /\ r.data # None
  /\ r.data[1].name = name
  /\ r.data[1].code = code
  /\ r.data[1].status = status

\* the step of a signUp whose faults in `database` are to raise
\* DATABASE_ERROR and all others UNKNOWN_ERROR
Classified(database) ==
  (Idle /\ req'.route = "prisma.user.signUp") =>
    LET b == req'.body IN
    IF b.email = EmailEmpty \/ b.password = "" \/ ~IncludesAt(b.email)
    THEN /\ Raised(resp', "InvalidUserDataError", "INVALID_USER_DATA", 400)
         /\ b.email = EmailEmpty => resp'.data[1].details.email = "Email is required"
         /\ b.password = "" => resp'.data[1].details.password = "Password is required"
         /\ users' = users
    ELSE IF b.fault \in database
    THEN Raised(resp', "AppError", "DATABASE_ERROR", 500) /\ users' = users
    ELSE IF b.fault # "none"
    THEN Raised(resp', "AppError", "UNKNOWN_ERROR", 500) /\ users' = users
    ELSE IF \E u \in users : u.email = b.email
    THEN /\ Raised(resp', "UserAlreadyExistsError", "USER_ALREADY_EXISTS", 400)
         /\ resp'.data[1].details = [email |-> b.email]
         /\ users' = users
    ELSE /\ resp'.data = None
         /\ \E u \in users' \ users : users' = users \cup {u} /\ u.email = b.email

C30_Classification == [][Classified(KnownRequestErrors)]_vars

C30_Original_PersistenceIsDatabaseError ==
  [][Classified(KnownRequestErrors \cup {"PrismaClientInitializationError"})]_vars

\* the database could not be reached while the email was free: the error
\* was raised as UNKNOWN_ERROR and nothing was stored
C30_Witness ==
  /\ req.route = "prisma.user.signUp"
  /\ req.body.fault = "PrismaClientInitializationError"
  /\ IncludesAt(req.body.email) /\ req.body.password # ""
  /\ Raised(resp, "AppError", "UNKNOWN_ERROR", 500)
  /\ \A u \in users : u.email # req.body.email

====
